---- MODULE Spec2Model ----
(***************************************************************************)
(* Job orchestration core of UAE_anthem: the in-memory job registry, the   *)
(* pipeline runner threads and the status handlers, in the two deployed    *)
(* variants:                                                               *)
(*   - the HTTP API   (src/api/main.py): JOBS, keyed by a uuid4 job id;    *)
(*   - the Gradio app (src/app.py):      JOB_STATUS, keyed by the phone.   *)
(* A process runs one of the two; `app` says which.                        *)
(*                                                                         *)
(* Python dicts are heap objects: a registry maps a key to a reference,    *)
(* `d[k]["status"] = v` mutates the object in place, `d[k] = {...}` binds  *)
(* a new object.  A handler that reads `job = JOBS.get(id)` holds the      *)
(* reference after it released the lock.                                   *)
(***************************************************************************)
EXTENDS Integers, Sequences, FiniteSets, TLC

(* ------------------------------ bounds -------------------------------- *)
\* Number of accepted submissions (= runner threads) in one behaviour.
MaxJobs == 2
\* Poll budgets of the two apps.  wave.py:191 sets 360 and wave.py:270 sets
\* 240; where two runners interleave the model runs the same loops with
\* scaled-down budgets.
MaxRetriesEdit == 2
MaxRetriesVideo == 1
\* wave.py:191, wave.py:270  max_retries, as the code sets them.
max_retries_edit == 360
max_retries_video == 240

Runners == 1..MaxJobs

(* ------------------------------ values -------------------------------- *)
\* Python's None.
None == "<None>"

\* main.py:182  the recognised styles.
ValidStyles == {"Male", "Female", "Boy", "Girl"}
\* Styles a client can send: the recognised ones and one that is not.
Styles == ValidStyles \cup {"Other"}
\* main.py:184  accepted content types, and one that is not accepted.
ImageTypes == {"image/jpeg", "image/png"}
ContentTypes == ImageTypes \cup {"text/plain"}
\* Upload bodies, as the list of chunks image.read() returns (their sizes).
Bodies == {<<>>, <<1>>}
\* app.py:142-146  what the Gradio form sends as style: the dropdown's
\* default, a value that is not one of its choices, and nothing.
FormStyles == {"Boy", "Other", ""}
\* Phone numbers typed into the Gradio form; "" is the empty text box.
Phones == {"0501", "0502"}

\* main.py:187  uuid.uuid4(): the n-th draw is a fresh identifier.
uuid4(n) == "job" \o ToString(n)
JobIds == {uuid4(n) : n \in Runners}
\* An identifier no submission ever issued.
StrangerId == "job0"

\* main.py:188-189  upload_path of a job (ext defaults to ".jpg").
upload_path(job_id) == "uploads/" \o job_id \o ".jpg"

\* main.py:65-67  _s3_key(*parts)
_s3_key(dir, name) == "uae-national-day/" \o dir \o "/" \o name
\* main.py:80-85  _s3_url_for_key(key): CDN url or presigned url, a string.
_s3_url_for_key(key) == "https://s3/" \o key

(* data_info.py: style -> asset.  The selection in wave.py ends in a bare *)
(* `else`, so every value that is not Male/Female/Boy selects the girl    *)
(* assets.                                                                 *)
\* wave.py:136-148  costume image of nano_banana_edit
costume(age_gap) ==
    IF age_gap = "Male" THEN "data/male/dress2.jpeg"
    ELSE IF age_gap = "Female" THEN "data/female/dress.jpeg"
    ELSE IF age_gap = "Boy" THEN "data/boy/dress.jpg"
    ELSE "data/girl/dress.jpeg"
\* wave.py:223-235  audio of wans2v
audio(age_gap) ==
    IF age_gap = "Male" THEN "data/male/audio1.mp3"
    ELSE IF age_gap = "Female" THEN "data/female/audio1.mp3"
    ELSE IF age_gap = "Boy" THEN "data/boy/audio1.mp3"
    ELSE "data/girl/audio1.mp3"

\* Exceptions, as (type name, message).
Exc(type, msg) == [type |-> type, msg |-> msg]
NoExc == Exc(None, None)
\* main.py:164  f"{type(e).__name__}: {e}"
api_error(e) == e.type \o ": " \o e.msg
\* app.py:48  str(e)
gradio_error(e) == e.msg

(* ------------------------------ state --------------------------------- *)
VARIABLES
    app,          \* "api" | "gradio": which program this process runs;
                  \* "wave": the remote operations of wave.py called alone
    JOBS,         \* main.py:101  job id -> dict reference (NoRef: no entry)
    JOB_STATUS,   \* app.py:17    phone  -> dict reference (NoRef: no entry)
    heap,         \* dict objects: reference -> fields
    lock,         \* JOBS_LOCK / _JOB_LOCK: 0 free, else the holding runner
    run,          \* runner threads: position and locals
    issued,       \* number of uuid4 draws so far
    files,        \* temporary upload files on disk
    store,        \* artifact store: S3 keys / result files written
    loop,         \* the handler the event loop is running, with its locals
    writes,       \* history: per live runner, the status values it stored
    failed_op,    \* history: per live runner, the first operation that failed
    quiet         \* history: no runner thread has taken a step since the
                  \* status query in progress began (TRUE when none is)

vars == <<app, JOBS, JOB_STATUS, heap, lock, run, issued, files, store, loop,
          writes, failed_op, quiet>>

\* A dict reference: the k-th dict literal runner r evaluates
\* (1: the entry it registers, 2: the entry it stores on failure).
Refs == Runners \X {1, 2}
\* What dict.get(key) yields for a key the registry does not hold.
NoRef == <<>>
Unallocated == [status |-> "<unallocated>"]

\* main.py:107-114  the entry a runner registers
api_entry(status, error) ==
    [status |-> status, video_url |-> None, image_url |-> None, error |-> error]
\* app.py:24, 48
gradio_entry(status, error) ==
    [status |-> status, video_path |-> None, error |-> error]

IdleRunner ==
    [pc |-> "idle", key |-> None, age_gap |-> None, img |-> None,
     edited |-> None, video |-> None, saved |-> None,
     retry_count |-> 0, e |-> NoExc]

IdleLoop == [h |-> "idle"]

Init ==
    /\ app \in {"api", "gradio"}
    /\ JOBS = [j \in JobIds \cup {StrangerId} |-> NoRef]
    /\ JOB_STATUS = [p \in Phones |-> NoRef]
    /\ heap = [o \in Refs |-> Unallocated]
    /\ lock = 0
    /\ run = [r \in Runners |-> IdleRunner]
    /\ issued = 0
    /\ files = {}
    /\ store = {}
    /\ loop = IdleLoop
    /\ writes = [r \in Runners |-> <<>>]
    /\ failed_op = [r \in Runners |-> None]
    /\ quiet = TRUE

\* The entry a registry holds for a key (Unallocated when it holds none).
Entry(reg, k) == IF reg[k] = NoRef THEN Unallocated ELSE heap[reg[k]]


truthy(v) == v \notin {None, ""}

(* -------------------- local moves of a runner thread ------------------- *)
\* The event loop is running a status query: job_status or check_status.
Querying == loop.h \in {"job_status", "check_status"}

\* A runner thread takes a step: a status query in progress is no longer
\* undisturbed.
Stir == quiet' = ~Querying

\* The runner moves to `pc`, with the locals in `upd` (a record) replaced.
Moved(r, pc, upd) ==
    [f \in DOMAIN run[r] |->
        IF f = "pc" THEN pc
        ELSE IF f \in DOMAIN upd THEN upd[f] ELSE run[r][f]]
Goto(r, pc, upd) == run' = [run EXCEPT ![r] = Moved(r, pc, upd)]

\* An exception `e` leaves operation `op`: control passes to the runner's
\* `except Exception as e` clause (main.py:158, app.py:46).  The clause reads
\* e and the key only; the frame of the operation that raised (retry_count)
\* is gone and the style is not read again.
Raise(r, op, e) ==
    /\ Goto(r, "except", [e |-> e, retry_count |-> 0, age_gap |-> None])
    /\ failed_op' = [failed_op EXCEPT ![r] = IF @ = None THEN op ELSE @]

\* The thread function returns: the thread's frame, and with it the model's
\* histories of the thread, are gone; the key it served stays on record.
Ended(r) == [IdleRunner EXCEPT !.pc = "done", !.key = run[r].key]
Return(r) ==
    /\ run' = [run EXCEPT ![r] = Ended(r)]
    /\ writes' = [writes EXCEPT ![r] = <<>>]
    /\ failed_op' = [failed_op EXCEPT ![r] = None]

\* The status value runner r stores is appended to its history.
Wrote(r, status) == writes' = [writes EXCEPT ![r] = Append(@, status)]

(* ----------------------- submission: HTTP API -------------------------- *)
\* main.py:194-205  stream the upload to disk under the size cap.  Per
\* chunk: `if not chunk: break`, then `read > MAX_UPLOAD_SIZE` is
\* evaluated; main.py defines no MAX_UPLOAD_SIZE, so the comparison raises
\* NameError on the first non-empty chunk, before f.write(chunk).
stream_to_disk(body) ==
    IF body = <<>> THEN NoExc
    ELSE Exc("NameError", "name 'MAX_UPLOAD_SIZE' is not defined")

\* What create_job does with one request when `n` ids were drawn before:
\* the response, whether uuid4 was drawn, the file it left on disk and
\* whether it started a runner thread.
CreateOutcome(res, drew, file, thread) ==
    [res |-> res, drew |-> drew, file |-> file, thread |-> thread]

\* A handler that validates the style only after the upload was stored.
create_job_late_check(age_group, content_type, body, n) ==
    LET job_id == uuid4(n + 1) IN
    IF content_type \notin ImageTypes
    THEN CreateOutcome([code |-> 400, detail |-> "Only JPEG/PNG images are accepted"],
                       FALSE, None, FALSE)
    ELSE IF age_group \notin ValidStyles
    THEN CreateOutcome([code |-> 400, detail |-> "Invalid age_group"],
                       TRUE, upload_path(job_id), FALSE)
    ELSE CreateOutcome([code |-> 200, job_id |-> job_id, status |-> "queued"],
                       TRUE, upload_path(job_id), TRUE)

\* main.py:176-211  create_job
create_job(age_group, content_type, body, n) ==
    LET job_id == uuid4(n + 1) IN
    IF age_group \notin ValidStyles
    THEN CreateOutcome([code |-> 400, detail |-> "Invalid age_group"],
                       FALSE, None, FALSE)
    ELSE IF content_type \notin ImageTypes
    THEN CreateOutcome([code |-> 400, detail |-> "Only JPEG/PNG images are accepted"],
                       FALSE, None, FALSE)
    ELSE IF stream_to_disk(body) # NoExc
    THEN CreateOutcome([code |-> 500, detail |-> api_error(stream_to_disk(body))],
                       TRUE, upload_path(job_id), FALSE)
    ELSE CreateOutcome([code |-> 200, job_id |-> job_id, status |-> "queued"],
                       TRUE, upload_path(job_id), TRUE)

\* POST /api/jobs: the event loop runs create_job on one request and holds
\* the response until it is sent.
PostJobs(age_group, content_type, body) ==
    LET out == create_job(age_group, content_type, body, issued)
        n == issued + 1
    IN /\ app = "api"
       /\ loop = IdleLoop
       /\ out.drew => issued < MaxJobs
       /\ issued' = IF out.drew THEN n ELSE issued
       /\ files' = IF out.file = None THEN files ELSE files \cup {out.file}
       /\ run' = IF out.thread
                 THEN [run EXCEPT ![n] =
                         [IdleRunner EXCEPT !.pc = "init",
                                            !.key = uuid4(n),
                                            !.img = out.file,
                                            !.age_gap = age_group]]
                 ELSE run
       /\ loop' = [h |-> "create_job", res |-> out.res]
       /\ UNCHANGED <<app, JOBS, JOB_STATUS, heap, lock, store, writes, failed_op, quiet>>

CreateJob ==
    \E age_group \in Styles, content_type \in ContentTypes, body \in Bodies :
        PostJobs(age_group, content_type, body)

\* The handler's response goes out; the event loop is free again.
Respond ==
    /\ loop # IdleLoop
    /\ loop.h \in {"job_status", "check_status", "job_qr", "healthz"}
          => loop.pc = "return"
    /\ loop' = IdleLoop
    /\ UNCHANGED <<app, JOBS, JOB_STATUS, heap, lock, run, issued, files, store,
                   writes, failed_op, quiet>>

(* ---------------------- submission: Gradio app ------------------------- *)
\* app.py:51-57  start_job: all fields present, then one thread per call.
start_job(img, age_gap, phone) == truthy(img) /\ truthy(age_gap) /\ truthy(phone)

StartJob ==
    /\ app = "gradio"
    /\ issued < MaxJobs
    /\ \E img \in {None, "gradio/photo.jpg"}, age_gap \in FormStyles,
          phone \in Phones \cup {""} :
         IF start_job(img, age_gap, phone)
         THEN /\ issued' = issued + 1
              /\ run' = [run EXCEPT ![issued + 1] =
                           [IdleRunner EXCEPT !.pc = "init", !.key = phone,
                                              !.img = img, !.age_gap = age_gap]]
         ELSE UNCHANGED <<issued, run>>
    /\ UNCHANGED <<app, JOBS, JOB_STATUS, heap, lock, files, store, loop,
                   writes, failed_op, quiet>>

(* ------------------ remote generation client (wave.py) ----------------- *)
\* What the remote service, the network and the disk may answer.
PostOutcomes == {"200", "non200", "raise"}
PollOutcomes == {"completed", "failed", "processing", "non200", "raise"}
NetworkError == Exc("ConnectionError", "connection aborted")

NoUpd == [pc |-> None]
\* Steps that touch nothing but the runner's own locals.
Local ==
    /\ UNCHANGED <<app, JOBS, JOB_STATUS, heap, lock, issued, files, store,
                   loop, writes>>
    /\ Stir

\* The output url the remote service hands to runner r.
edit_output(r) == "https://remote/image/" \o ToString(r)
video_output(r) == "https://remote/video/" \o ToString(r)

\* A caller that goes on to the video stage whatever the edit returned.
EditReturnUnchecked(r, v, why) ==
    /\ Goto(r, "set_video", [edited |-> v, retry_count |-> 0])
    /\ failed_op' = [failed_op EXCEPT ![r] = IF truthy(v) THEN @ ELSE why]

\* main.py:122-124, app.py:26-28  the caller's check of the edit result
EditReturn(r, v, why) ==
    IF truthy(v)
    THEN Goto(r, "set_video", [edited |-> v, retry_count |-> 0]) /\ UNCHANGED failed_op
    ELSE Raise(r, why, Exc("RuntimeError", "Image generation failed"))

\* A caller that runs the image edit again when the video stage failed.
VideoReturnRetry(r, v, why) ==
    IF truthy(v)
    THEN /\ Goto(r, IF app = "api" THEN "download_image" ELSE "save_photo",
                 [video |-> v, retry_count |-> 0])
         /\ UNCHANGED failed_op
    ELSE /\ Goto(r, "edit_encode", [retry_count |-> 0])
         /\ failed_op' = [failed_op EXCEPT ![r] = IF @ = None THEN why ELSE @]

\* main.py:130-132, app.py:33-35  the caller's check of the video result
VideoReturn(r, v, why) ==
    IF truthy(v)
    THEN /\ Goto(r, IF app = "api" THEN "download_image" ELSE "save_photo",
                 [video |-> v, retry_count |-> 0])
         /\ UNCHANGED failed_op
    ELSE Raise(r, why, Exc("RuntimeError", "Video generation failed"))

\* wave.py:191-193, 270-272  max_retries of the running program.
EditBudget == IF app = "wave" THEN max_retries_edit ELSE MaxRetriesEdit
VideoBudget == IF app = "wave" THEN max_retries_video ELSE MaxRetriesVideo

\* wave.py:94-96  file_to_base64 finds the input image on disk
input_exists(r) == app = "api" => run[r].img \in files

\* wave.py:127-156  nano_banana_edit: encode the input, the background and
\* the costume image selected by the style.
NanoEncode(r) ==
    /\ run[r].pc = "edit_encode"
    /\ \E asset \in {costume(run[r].age_gap)}, assets_ok \in BOOLEAN :
         IF input_exists(r) /\ assets_ok
         THEN Goto(r, "edit_submit", NoUpd) /\ UNCHANGED failed_op
         ELSE EditReturn(r, None, "edit_encode")
    /\ Local

\* An edit submission that goes on to poll although the POST was refused.
NanoSubmitUnchecked(r) ==
    /\ run[r].pc = "edit_submit"
    /\ \E post \in PostOutcomes :
         CASE post = "200" ->
                Goto(r, "edit_poll", [retry_count |-> 0]) /\ UNCHANGED failed_op
           [] post = "non200" ->
                /\ Goto(r, "edit_poll", [retry_count |-> 0])
                /\ failed_op' = [failed_op EXCEPT ![r] = "edit_rejected"]
           [] post = "raise" -> Raise(r, "edit_exception", NetworkError)
    /\ Local

\* wave.py:177-191  nano_banana_edit: the submission POST.
NanoSubmit(r) ==
    /\ run[r].pc = "edit_submit"
    /\ \E post \in PostOutcomes :
         CASE post = "200" ->
                Goto(r, "edit_poll", [retry_count |-> 0]) /\ UNCHANGED failed_op
           [] post = "non200" -> EditReturn(r, None, "edit_rejected")
           [] post = "raise" -> Raise(r, "edit_exception", NetworkError)
    /\ Local

\* A wait for the edit that polls once more when the budget is used up.
NanoPollOverBudget(r) ==
    /\ run[r].pc = "edit_poll"
    /\ run[r].retry_count <= EditBudget
    /\ \E get \in PollOutcomes :
         CASE get = "completed" -> EditReturn(r, edit_output(r), None)
           [] get = "failed" -> EditReturn(r, None, "edit_task_failed")
           [] get = "processing" ->
                /\ Goto(r, "edit_poll", [retry_count |-> run[r].retry_count + 1])
                /\ UNCHANGED failed_op
           [] get = "non200" -> EditReturn(r, None, "edit_poll_http")
           [] get = "raise" -> Raise(r, "edit_exception", NetworkError)
    /\ Local

\* A wait for the edit that sleeps and polls again after an error answer.
NanoPollThroughErrors(r) ==
    /\ run[r].pc = "edit_poll"
    /\ run[r].retry_count < EditBudget
    /\ \E get \in PollOutcomes :
         CASE get = "completed" -> EditReturn(r, edit_output(r), None)
           [] get = "failed" -> EditReturn(r, None, "edit_task_failed")
           [] get = "processing" ->
                /\ Goto(r, "edit_poll", [retry_count |-> run[r].retry_count + 1])
                /\ UNCHANGED failed_op
           [] get = "non200" ->
                /\ Goto(r, "edit_poll", [retry_count |-> run[r].retry_count + 1])
                /\ failed_op' = [failed_op EXCEPT ![r] = "edit_poll_http"]
           [] get = "raise" -> Raise(r, "edit_exception", NetworkError)
    /\ Local

\* wave.py:193-211  nano_banana_edit: one iteration of the poll loop.
NanoPoll(r) ==
    /\ run[r].pc = "edit_poll"
    /\ run[r].retry_count < EditBudget
    /\ \E get \in PollOutcomes :
         CASE get = "completed" -> EditReturn(r, edit_output(r), None)
           [] get = "failed" -> EditReturn(r, None, "edit_task_failed")
           [] get = "processing" ->
                /\ Goto(r, "edit_poll", [retry_count |-> run[r].retry_count + 1])
                /\ UNCHANGED failed_op
           [] get = "non200" -> EditReturn(r, None, "edit_poll_http")
           [] get = "raise" -> Raise(r, "edit_exception", NetworkError)
    /\ Local

\* A wait for the edit that starts its count over when the budget is used up.
NanoNoTimeout(r) ==
    /\ run[r].pc = "edit_poll"
    /\ ~(run[r].retry_count < EditBudget)
    /\ Goto(r, "edit_poll", [retry_count |-> 0])
    /\ UNCHANGED failed_op
    /\ Local

\* wave.py:193, 213-214  nano_banana_edit: the budget is used up.
NanoTimeout(r) ==
    /\ run[r].pc = "edit_poll"
    /\ ~(run[r].retry_count < EditBudget)
    /\ EditReturn(r, None, "edit_timeout")
    /\ Local

\* wave.py:223-241  wans2v: encode the audio selected by the style.
WanEncode(r) ==
    /\ run[r].pc = "video_encode"
    /\ \E asset \in {audio(run[r].age_gap)}, assets_ok \in BOOLEAN :
         IF assets_ok
         THEN Goto(r, "video_submit", NoUpd) /\ UNCHANGED failed_op
         ELSE VideoReturn(r, None, "video_encode")
    /\ Local

\* wave.py:256-270  wans2v: the submission POST.
WanSubmit(r) ==
    /\ run[r].pc = "video_submit"
    /\ \E post \in PostOutcomes :
         CASE post = "200" ->
                Goto(r, "video_poll", [retry_count |-> 0]) /\ UNCHANGED failed_op
           [] post = "non200" -> VideoReturn(r, None, "video_rejected")
           [] post = "raise" -> Raise(r, "video_exception", NetworkError)
    /\ Local

\* wave.py:272-289  wans2v: one iteration of the poll loop.
WanPoll(r) ==
    /\ run[r].pc = "video_poll"
    /\ run[r].retry_count < VideoBudget
    /\ \E get \in PollOutcomes :
         CASE get = "completed" -> VideoReturn(r, video_output(r), None)
           [] get = "failed" -> VideoReturn(r, None, "video_task_failed")
           [] get = "processing" ->
                /\ Goto(r, "video_poll", [retry_count |-> run[r].retry_count + 1])
                /\ UNCHANGED failed_op
           [] get = "non200" -> VideoReturn(r, None, "video_poll_http")
           [] get = "raise" -> Raise(r, "video_exception", NetworkError)
    /\ Local

\* wave.py:272, 291-292  wans2v: the budget is used up.
WanTimeout(r) ==
    /\ run[r].pc = "video_poll"
    /\ ~(run[r].retry_count < VideoBudget)
    /\ VideoReturn(r, None, "video_timeout")
    /\ Local

(* ------------------- pipeline runner: HTTP API ------------------------- *)
\* The dict the registry binds to the runner's key right now.
ApiJob(r) == JOBS[run[r].key]
S3Error == Exc("ClientError", "An error occurred (AccessDenied)")
HttpError == Exc("HTTPError", "404 Client Error: Not Found")

\* A failed entry that records no error text.
api_failed_entry_silent(e) == api_entry("failed", None)

\* main.py:160-167  the entry stored on failure
api_failed_entry(e) == api_entry("failed", api_error(e))

\* main.py:106-114  register the job with status "image".
ApiRegister(r) ==
    /\ app = "api" /\ run[r].pc = "init"
    /\ lock = 0
    /\ heap' = [heap EXCEPT ![<<r, 1>>] = api_entry("image", None)]
    /\ JOBS' = [JOBS EXCEPT ![run[r].key] = <<r, 1>>]
    /\ Wrote(r, "image")
    /\ Goto(r, "upload_original", NoUpd)
    /\ UNCHANGED <<app, JOB_STATUS, lock, issued, files, store, loop, failed_op>>
    /\ Stir

\* main.py:116-119  upload the original image to S3.
ApiUploadOriginal(r) ==
    /\ app = "api" /\ run[r].pc = "upload_original"
    /\ \E ok \in BOOLEAN :
         IF ok
         THEN /\ store' = store \cup {_s3_key("uploads", run[r].key \o ".jpg")}
              /\ Goto(r, "edit_encode", NoUpd)
              /\ UNCHANGED failed_op
         ELSE /\ Raise(r, "upload_original", S3Error)
              /\ UNCHANGED store
    /\ UNCHANGED <<app, JOBS, JOB_STATUS, heap, lock, issued, files, loop, writes>>
    /\ Stir

\* A runner that goes on to the video stage without storing it.
ApiSetVideoUnstored(r) ==
    /\ app = "api" /\ run[r].pc = "set_video"
    /\ lock = 0
    /\ Goto(r, "video_encode", NoUpd)
    /\ UNCHANGED <<app, JOBS, JOB_STATUS, heap, lock, issued, files, store, loop,
                   writes, failed_op>>
    /\ Stir

\* main.py:126-127  JOBS[job_id]["status"] = "video"
ApiSetVideo(r) ==
    /\ app = "api" /\ run[r].pc = "set_video"
    /\ lock = 0
    /\ heap' = [heap EXCEPT ![ApiJob(r)].status = "video"]
    /\ Wrote(r, "video")
    /\ Goto(r, "video_encode", NoUpd)
    /\ UNCHANGED <<app, JOBS, JOB_STATUS, lock, issued, files, store, loop, failed_op>>
    /\ Stir

\* main.py:135-137  download the edited image.
ApiDownloadImage(r) ==
    /\ app = "api" /\ run[r].pc = "download_image"
    /\ \E ok \in BOOLEAN :
         IF ok THEN Goto(r, "put_image", NoUpd) /\ UNCHANGED failed_op
         ELSE Raise(r, "download_image", HttpError)
    /\ Local

\* main.py:138-139  store the edited image.
ApiPutImage(r) ==
    /\ app = "api" /\ run[r].pc = "put_image"
    /\ \E ok \in BOOLEAN :
         IF ok
         THEN /\ store' = store \cup {_s3_key("images", run[r].key \o ".jpeg")}
              /\ Goto(r, "download_video", NoUpd)
              /\ UNCHANGED failed_op
         ELSE /\ Raise(r, "put_image", S3Error)
              /\ UNCHANGED store
    /\ UNCHANGED <<app, JOBS, JOB_STATUS, heap, lock, issued, files, loop, writes>>
    /\ Stir

\* main.py:142-144  download the generated video.
ApiDownloadVideo(r) ==
    /\ app = "api" /\ run[r].pc = "download_video"
    /\ \E ok \in BOOLEAN :
         IF ok THEN Goto(r, "put_video", NoUpd) /\ UNCHANGED failed_op
         ELSE Raise(r, "download_video", HttpError)
    /\ Local

\* main.py:145-150  store the video; then the two retrieval urls (pure).
ApiPutVideo(r) ==
    /\ app = "api" /\ run[r].pc = "put_video"
    /\ \E ok \in BOOLEAN :
         IF ok
         THEN /\ store' = store \cup {_s3_key("videos", run[r].key \o ".mp4")}
              /\ Goto(r, "complete", NoUpd)
              /\ UNCHANGED failed_op
         ELSE /\ Raise(r, "put_video", S3Error)
              /\ UNCHANGED store
    /\ UNCHANGED <<app, JOBS, JOB_STATUS, heap, lock, issued, files, loop, writes>>
    /\ Stir

\* main.py:152  with JOBS_LOCK:
ApiCompleteLock(r) ==
    /\ app = "api" /\ run[r].pc = "complete"
    /\ lock = 0
    /\ lock' = r
    /\ Goto(r, "c_status", NoUpd)
    /\ UNCHANGED <<app, JOBS, JOB_STATUS, heap, issued, files, store, loop,
                   writes, failed_op>>
    /\ Stir

\* main.py:153  JOBS[job_id]["status"] = "completed"
ApiCompleteStatus(r) ==
    /\ app = "api" /\ run[r].pc = "c_status"
    /\ heap' = [heap EXCEPT ![ApiJob(r)].status = "completed"]
    /\ Wrote(r, "completed")
    /\ Goto(r, "c_image", NoUpd)
    /\ UNCHANGED <<app, JOBS, JOB_STATUS, lock, issued, files, store, loop, failed_op>>
    /\ Stir

\* main.py:154  JOBS[job_id]["image_url"] = s3_image_url
ApiCompleteImage(r) ==
    /\ app = "api" /\ run[r].pc = "c_image"
    /\ heap' = [heap EXCEPT ![ApiJob(r)].image_url =
                  _s3_url_for_key(_s3_key("images", run[r].key \o ".jpeg"))]
    /\ Goto(r, "c_video", NoUpd)
    /\ UNCHANGED <<app, JOBS, JOB_STATUS, lock, issued, files, store, loop,
                   writes, failed_op>>
    /\ Stir

\* A completion that stores no video_url.
ApiCompleteVideoOmitted(r) ==
    /\ app = "api" /\ run[r].pc = "c_video"
    /\ Goto(r, "c_unlock", NoUpd)
    /\ UNCHANGED <<app, JOBS, JOB_STATUS, heap, lock, issued, files, store, loop,
                   writes, failed_op>>
    /\ Stir

\* main.py:155  JOBS[job_id]["video_url"] = s3_video_url
ApiCompleteVideo(r) ==
    /\ app = "api" /\ run[r].pc = "c_video"
    /\ heap' = [heap EXCEPT ![ApiJob(r)].video_url =
                  _s3_url_for_key(_s3_key("videos", run[r].key \o ".mp4"))]
    /\ Goto(r, "c_unlock", NoUpd)
    /\ UNCHANGED <<app, JOBS, JOB_STATUS, lock, issued, files, store, loop,
                   writes, failed_op>>
    /\ Stir

\* A completion whose with block also encloses the finally clause.
ApiCompleteStillLocked(r) ==
    /\ app = "api" /\ run[r].pc = "c_unlock"
    /\ Goto(r, "finally", NoUpd)
    /\ UNCHANGED <<app, JOBS, JOB_STATUS, heap, lock, issued, files, store, loop,
                   writes, failed_op>>
    /\ Stir

\* main.py:156  completed_at is stored and the with block releases the lock.
ApiCompleteUnlock(r) ==
    /\ app = "api" /\ run[r].pc = "c_unlock"
    /\ lock' = 0
    /\ Goto(r, "finally", NoUpd)
    /\ UNCHANGED <<app, JOBS, JOB_STATUS, heap, issued, files, store, loop,
                   writes, failed_op>>
    /\ Stir

\* An except clause that binds the failed entry to every registered job id.
ApiExceptShared(r) ==
    /\ app = "api" /\ run[r].pc = "except"
    /\ lock = 0
    /\ heap' = [heap EXCEPT ![<<r, 2>>] = api_failed_entry(run[r].e)]
    /\ JOBS' = [j \in DOMAIN JOBS |-> IF JOBS[j] # NoRef THEN <<r, 2>> ELSE NoRef]
    /\ Wrote(r, "failed")
    /\ Goto(r, "finally", [e |-> NoExc])
    /\ UNCHANGED <<app, JOB_STATUS, lock, issued, files, store, loop, failed_op>>
    /\ Stir

\* main.py:158-167  except Exception as e: bind a new failed entry (the name
\* e is unbound when the clause ends).
ApiExcept(r) ==
    /\ app = "api" /\ run[r].pc = "except"
    /\ lock = 0
    /\ heap' = [heap EXCEPT ![<<r, 2>>] = api_failed_entry(run[r].e)]
    /\ JOBS' = [JOBS EXCEPT ![run[r].key] = <<r, 2>>]
    /\ Wrote(r, "failed")
    /\ Goto(r, "finally", [e |-> NoExc])
    /\ UNCHANGED <<app, JOB_STATUS, lock, issued, files, store, loop, failed_op>>
    /\ Stir

\* A finally clause that leaves the temporary upload where it is.
ApiFinallyKeepsUpload(r) ==
    /\ app = "api" /\ run[r].pc = "finally"
    /\ Return(r)
    /\ UNCHANGED <<app, JOBS, JOB_STATUS, heap, lock, issued, files, store, loop>>
    /\ Stir

\* main.py:168-174  finally: remove the temporary upload.
ApiFinally(r) ==
    /\ app = "api" /\ run[r].pc = "finally"
    /\ files' = files \ {run[r].img}
    /\ Return(r)
    /\ UNCHANGED <<app, JOBS, JOB_STATUS, heap, lock, issued, store, loop>>
    /\ Stir

(* ------------------- pipeline runner: Gradio app ----------------------- *)
GradioJob(r) == JOB_STATUS[run[r].key]
photo_path(id) == "result/images/" \o id \o ".jpeg"
video_path(id) == "result/videos/" \o id \o ".mp4"
SaveOutcomes == {"200", "non200", "raise"}

\* app.py:48  the entry stored on failure
gradio_failed_entry(e) == gradio_entry("failed", gradio_error(e))

\* app.py:23-24  register the job with status "image".
GradioRegister(r) ==
    /\ app = "gradio" /\ run[r].pc = "init"
    /\ lock = 0
    /\ heap' = [heap EXCEPT ![<<r, 1>>] = gradio_entry("image", None)]
    /\ JOB_STATUS' = [JOB_STATUS EXCEPT ![run[r].key] = <<r, 1>>]
    /\ Wrote(r, "image")
    /\ Goto(r, "edit_encode", NoUpd)
    /\ UNCHANGED <<app, JOBS, lock, issued, files, store, loop, failed_op>>
    /\ Stir

\* app.py:30-31  JOB_STATUS[phone]["status"] = "video"
GradioSetVideo(r) ==
    /\ app = "gradio" /\ run[r].pc = "set_video"
    /\ lock = 0
    /\ heap' = [heap EXCEPT ![GradioJob(r)].status = "video"]
    /\ Wrote(r, "video")
    /\ Goto(r, "video_encode", NoUpd)
    /\ UNCHANGED <<app, JOBS, JOB_STATUS, lock, issued, files, store, loop, failed_op>>
    /\ Stir

\* app.py:38, wave.py:312-326  save_photo; its result is not looked at.
GradioSavePhoto(r) ==
    /\ app = "gradio" /\ run[r].pc = "save_photo"
    /\ \E get \in SaveOutcomes :
         CASE get = "200" ->
                /\ store' = store \cup {photo_path(run[r].key)}
                /\ Goto(r, "save_video", NoUpd)
                /\ UNCHANGED failed_op
           [] get = "non200" ->
                /\ Goto(r, "save_video", NoUpd)
                /\ failed_op' = [failed_op EXCEPT ![r] = "save_photo"]
                /\ UNCHANGED store
           [] get = "raise" ->
                /\ Raise(r, "save_photo", NetworkError)
                /\ UNCHANGED store
    /\ UNCHANGED <<app, JOBS, JOB_STATUS, heap, lock, issued, files, loop, writes>>
    /\ Stir

\* app.py:39-41, wave.py:295-309  save_video, and the check of its result.
GradioSaveVideo(r) ==
    /\ app = "gradio" /\ run[r].pc = "save_video"
    /\ \E get \in SaveOutcomes :
         CASE get = "200" ->
                /\ store' = store \cup {video_path(run[r].key)}
                /\ Goto(r, "complete", [saved |-> video_path(run[r].key)])
                /\ UNCHANGED failed_op
           [] get = "non200" ->
                /\ Raise(r, "save_video", Exc("RuntimeError", "Saving video failed"))
                /\ UNCHANGED store
           [] get = "raise" ->
                /\ Raise(r, "save_video", NetworkError)
                /\ UNCHANGED store
    /\ UNCHANGED <<app, JOBS, JOB_STATUS, heap, lock, issued, files, loop, writes>>
    /\ Stir

\* app.py:43  with _JOB_LOCK:
GradioCompleteLock(r) ==
    /\ app = "gradio" /\ run[r].pc = "complete"
    /\ lock = 0
    /\ lock' = r
    /\ Goto(r, "c_status", NoUpd)
    /\ UNCHANGED <<app, JOBS, JOB_STATUS, heap, issued, files, store, loop,
                   writes, failed_op>>
    /\ Stir

\* app.py:44  JOB_STATUS[phone]["status"] = "completed"
GradioCompleteStatus(r) ==
    /\ app = "gradio" /\ run[r].pc = "c_status"
    /\ heap' = [heap EXCEPT ![GradioJob(r)].status = "completed"]
    /\ Wrote(r, "completed")
    /\ Goto(r, "c_video", NoUpd)
    /\ UNCHANGED <<app, JOBS, JOB_STATUS, lock, issued, files, store, loop, failed_op>>
    /\ Stir

\* app.py:45  JOB_STATUS[phone]["video_path"] = saved_path; the lock is released.
GradioCompletePath(r) ==
    /\ app = "gradio" /\ run[r].pc = "c_video"
    /\ heap' = [heap EXCEPT ![GradioJob(r)].video_path = run[r].saved]
    /\ lock' = 0
    /\ Goto(r, "return", NoUpd)
    /\ UNCHANGED <<app, JOBS, JOB_STATUS, issued, files, store, loop, writes, failed_op>>
    /\ Stir

\* app.py:46-48  except Exception as e: bind a new failed entry.
GradioExcept(r) ==
    /\ app = "gradio" /\ run[r].pc = "except"
    /\ lock = 0
    /\ heap' = [heap EXCEPT ![<<r, 2>>] = gradio_failed_entry(run[r].e)]
    /\ JOB_STATUS' = [JOB_STATUS EXCEPT ![run[r].key] = <<r, 2>>]
    /\ Wrote(r, "failed")
    /\ Goto(r, "return", [e |-> NoExc])
    /\ UNCHANGED <<app, JOBS, lock, issued, files, store, loop, failed_op>>
    /\ Stir

\* app.py:21-48  _run_pipeline returns and the thread ends.
GradioReturn(r) ==
    /\ app = "gradio" /\ run[r].pc = "return"
    /\ Return(r)
    /\ UNCHANGED <<app, JOBS, JOB_STATUS, heap, lock, issued, files, store, loop>>
    /\ Stir

(* -------------------- status handler: HTTP API ------------------------- *)
\* A key the response does not carry.
Absent == "<absent>"
Resp(status, error) ==
    [status |-> status, error |-> error, video_url |-> Absent,
     image_url |-> Absent, qr_url |-> Absent, progress |-> Absent]
\* The runner thread started for a job id, 0 when there is none.
RunnerOf(job_id) ==
    IF \E r \in Runners : run[r].key = job_id
    THEN CHOOSE r \in Runners : run[r].key = job_id ELSE 0

\* main.py:218-231  the response of job_status as a function of one value
\* of the job's entry.
project(job_id, job) ==
    IF job = Unallocated THEN Resp("queued", Absent)
    ELSE LET resp == Resp(job.status, job.error) IN
         CASE job.status = "completed" ->
                [resp EXCEPT !.video_url = job.video_url,
                             !.image_url = job.image_url,
                             !.qr_url = "/api/jobs/" \o job_id \o "/qr"]
           [] job.status = "image" -> [resp EXCEPT !.progress = "Editing image..."]
           [] job.status = "video" -> [resp EXCEPT !.progress = "Generating video..."]
           [] OTHER -> resp

\* A lookup that answers not-found when the registry has no entry.
JobStatusGetNotFound(job_id) ==
    /\ app = "api" /\ loop = IdleLoop
    /\ lock = 0
    /\ loop' = [h |-> "job_status", job_id |-> job_id, job |-> JOBS[job_id],
                pc |-> IF JOBS[job_id] = NoRef THEN "return" ELSE "read_status",
                resp |-> IF JOBS[job_id] = NoRef
                         THEN Resp("not_found", Absent) ELSE Resp(Absent, Absent),
                late |-> RunnerOf(job_id) # 0 /\ run[RunnerOf(job_id)].pc = "done"]
    /\ UNCHANGED <<app, JOBS, JOB_STATUS, heap, lock, run, issued, files, store,
                   writes, failed_op, quiet>>

\* A lookup that takes the entry out of the registry as it reads it.
JobStatusGetPop(job_id) ==
    /\ app = "api" /\ loop = IdleLoop
    /\ lock = 0
    /\ loop' = [h |-> "job_status", job_id |-> job_id, job |-> JOBS[job_id],
                pc |-> IF JOBS[job_id] = NoRef THEN "return" ELSE "read_status",
                resp |-> IF JOBS[job_id] = NoRef
                         THEN Resp("queued", Absent) ELSE Resp(Absent, Absent),
                late |-> RunnerOf(job_id) # 0 /\ run[RunnerOf(job_id)].pc = "done"]
    /\ JOBS' = [JOBS EXCEPT ![job_id] = NoRef]
    /\ UNCHANGED <<app, JOB_STATUS, heap, lock, run, issued, files, store,
                   writes, failed_op, quiet>>

\* main.py:215-219  job = JOBS.get(job_id) under the lock; no entry: queued.
\* `late` records whether the job's runner had ended when the query began.
JobStatusGet(job_id) ==
    /\ app = "api" /\ loop = IdleLoop
    /\ lock = 0
    /\ loop' = [h |-> "job_status", job_id |-> job_id, job |-> JOBS[job_id],
                pc |-> IF JOBS[job_id] = NoRef THEN "return" ELSE "read_status",
                resp |-> IF JOBS[job_id] = NoRef
                         THEN Resp("queued", Absent) ELSE Resp(Absent, Absent),
                late |-> RunnerOf(job_id) # 0 /\ run[RunnerOf(job_id)].pc = "done"]
    /\ UNCHANGED <<app, JOBS, JOB_STATUS, heap, lock, run, issued, files, store,
                   writes, failed_op, quiet>>

\* main.py:221  resp = {"status": job["status"], "error": job.get("error")}
JobStatusRead ==
    /\ loop.h = "job_status" /\ loop.pc = "read_status"
    /\ loop' = [loop EXCEPT !.pc = "branch",
                            !.resp = Resp(heap[loop.job].status, heap[loop.job].error)]
    /\ UNCHANGED <<app, JOBS, JOB_STATUS, heap, lock, run, issued, files, store,
                   writes, failed_op, quiet>>

\* main.py:222, 226-229  the second read of job["status"] picks the branch.
JobStatusBranch ==
    /\ loop.h = "job_status" /\ loop.pc = "branch"
    /\ LET status == heap[loop.job].status IN
       loop' = CASE status = "completed" -> [loop EXCEPT !.pc = "read_video"]
                 [] status = "image" ->
                      [loop EXCEPT !.pc = "return", !.resp.progress = "Editing image..."]
                 [] status = "video" ->
                      [loop EXCEPT !.pc = "return", !.resp.progress = "Generating video..."]
                 [] OTHER -> [loop EXCEPT !.pc = "return"]
    /\ UNCHANGED <<app, JOBS, JOB_STATUS, heap, lock, run, issued, files, store,
                   writes, failed_op, quiet>>

\* main.py:223  resp["video_url"] = job.get("video_url")
JobStatusVideo ==
    /\ loop.h = "job_status" /\ loop.pc = "read_video"
    /\ loop' = [loop EXCEPT !.pc = "read_image",
                            !.resp.video_url = heap[loop.job].video_url]
    /\ UNCHANGED <<app, JOBS, JOB_STATUS, heap, lock, run, issued, files, store,
                   writes, failed_op, quiet>>

\* main.py:224-225  resp["image_url"] = job.get("image_url"); the qr url.
JobStatusImage ==
    /\ loop.h = "job_status" /\ loop.pc = "read_image"
    /\ loop' = [loop EXCEPT !.pc = "return",
                            !.resp.image_url = heap[loop.job].image_url,
                            !.resp.qr_url = "/api/jobs/" \o loop.job_id \o "/qr"]
    /\ UNCHANGED <<app, JOBS, JOB_STATUS, heap, lock, run, issued, files, store,
                   writes, failed_op, quiet>>

(* ------------------- QR and health handlers: HTTP API ------------------ *)
\* main.py:235-236  job = JOBS.get(job_id) under the lock.
JobQrGet(job_id) ==
    /\ app = "api" /\ loop = IdleLoop
    /\ lock = 0
    /\ loop' = [h |-> "job_qr", job_id |-> job_id, job |-> JOBS[job_id],
                pc |-> "check", res |-> None]
    /\ UNCHANGED <<app, JOBS, JOB_STATUS, heap, lock, run, issued, files, store,
                   writes, failed_op, quiet>>

\* main.py:238-246  outside the lock: no job, a status other than completed
\* or no video_url: 404; else the QR code of job["video_url"].
JobQrCheck ==
    /\ loop.h = "job_qr" /\ loop.pc = "check"
    /\ LET job == IF loop.job = NoRef THEN Unallocated ELSE heap[loop.job] IN
       loop' = [loop EXCEPT
                  !.pc = "return",
                  !.res = IF job = Unallocated \/ job.status # "completed"
                             \/ ~truthy(job.video_url)
                          THEN "404" ELSE "qr:" \o job.video_url]
    /\ UNCHANGED <<app, JOBS, JOB_STATUS, heap, lock, run, issued, files, store,
                   writes, failed_op, quiet>>

\* main.py:277  the keys JOBS holds: what JOBS.values() iterates over.
Registered == {j \in DOMAIN JOBS : JOBS[j] # NoRef}

\* main.py:267-277  after s3.head_bucket, the iteration over JOBS.values()
\* begins; no lock is taken.  `used` is the size of the dict then.
HealthzBegin ==
    /\ app = "api" /\ loop = IdleLoop
    /\ loop' = [h |-> "healthz", pc |-> "count", used |-> Cardinality(Registered),
                res |-> None]
    /\ UNCHANGED <<app, JOBS, JOB_STATUS, heap, lock, run, issued, files, store,
                   writes, failed_op, quiet>>

\* main.py:277  the iteration reads j["status"] of every entry; a dict
\* that changed size since the iteration began raises RuntimeError, which
\* healthz does not catch: 500.  Else jobs_active is the count.
HealthzCount ==
    /\ loop.h = "healthz" /\ loop.pc = "count"
    /\ loop' = [loop EXCEPT
                  !.pc = "return",
                  !.res = IF Cardinality(Registered) # loop.used THEN "500"
                          ELSE ToString(Cardinality(
                                 {j \in Registered :
                                    heap[JOBS[j]].status \in {"image", "video"}}))]
    /\ UNCHANGED <<app, JOBS, JOB_STATUS, heap, lock, run, issued, files, store,
                   writes, failed_op, quiet>>

(* -------------------- status handler: Gradio app ----------------------- *)
\* app.py:73-93  what check_status returns: the video, its QR code and the
\* status message.
View(video, message) ==
    [video |-> video,
     qr |-> IF video = None THEN None ELSE "qr:" \o video,
     message |-> message]

\* app.py:83-93  check_status on one value of the job's entry;
\* os.path.exists looks at the result files.
check_view(job) ==
    IF job = Unallocated THEN View(None, "")
    ELSE IF job.status = "completed" /\ truthy(job.video_path)
            /\ job.video_path \in store
    THEN View(job.video_path, "Video ready!")
    ELSE IF job.status = "failed" THEN View(None, "failed: " \o job.error)
    ELSE View(None, IF job.status = "image" THEN "Editing image..."
                    ELSE "Creating video...")

\* app.py:74-81  no phone: the empty view; else job = JOB_STATUS.get(phone)
\* under the lock; no entry: the empty view.
CheckStatusGet(phone) ==
    /\ app = "gradio" /\ loop = IdleLoop
    /\ lock = 0
    /\ loop' = IF ~truthy(phone) \/ JOB_STATUS[phone] = NoRef
               THEN [h |-> "check_status", phone |-> phone, job |-> NoRef,
                     pc |-> "return", view |-> View(None, "")]
               ELSE [h |-> "check_status", phone |-> phone, job |-> JOB_STATUS[phone],
                     pc |-> "view", view |-> View(None, "")]
    /\ UNCHANGED <<app, JOBS, JOB_STATUS, heap, lock, run, issued, files, store,
                   writes, failed_op, quiet>>

\* app.py:83-93  the reads of job outside the lock, and the view.
CheckStatusView ==
    /\ loop.h = "check_status" /\ loop.pc = "view"
    /\ loop' = [loop EXCEPT !.pc = "return", !.view = check_view(heap[loop.job])]
    /\ UNCHANGED <<app, JOBS, JOB_STATUS, heap, lock, run, issued, files, store,
                   writes, failed_op, quiet>>

(* --------------------------- specification ----------------------------- *)
\* One step of runner thread r.
RunnerStep(r) ==
    \/ NanoEncode(r) \/ NanoSubmit(r) \/ NanoPoll(r) \/ NanoTimeout(r)
    \/ WanEncode(r) \/ WanSubmit(r) \/ WanPoll(r) \/ WanTimeout(r)
    \/ ApiRegister(r) \/ ApiUploadOriginal(r) \/ ApiSetVideo(r)
    \/ ApiDownloadImage(r) \/ ApiPutImage(r) \/ ApiDownloadVideo(r)
    \/ ApiPutVideo(r) \/ ApiCompleteLock(r) \/ ApiCompleteStatus(r)
    \/ ApiCompleteImage(r) \/ ApiCompleteVideo(r) \/ ApiCompleteUnlock(r)
    \/ ApiExcept(r) \/ ApiFinally(r)
    \/ GradioRegister(r) \/ GradioSetVideo(r) \/ GradioSavePhoto(r)
    \/ GradioSaveVideo(r) \/ GradioCompleteLock(r) \/ GradioCompleteStatus(r)
    \/ GradioCompletePath(r) \/ GradioExcept(r) \/ GradioReturn(r)

\* One step of the event loop's status handler.
JobStatusStep ==
    \/ \E job_id \in JobIds \cup {StrangerId} : JobStatusGet(job_id)
    \/ JobStatusRead \/ JobStatusBranch \/ JobStatusVideo \/ JobStatusImage

\* One step of the event loop's QR or health handler.
JobQrStep ==
    \/ \E job_id \in JobIds \cup {StrangerId} : JobQrGet(job_id)
    \/ JobQrCheck

HealthzStep == HealthzBegin \/ HealthzCount

\* One step of the Gradio timer's status handler.
CheckStatusStep ==
    \/ \E phone \in Phones \cup {""} : CheckStatusGet(phone)
    \/ CheckStatusView

Next ==
    \/ CreateJob
    \/ StartJob
    \/ JobStatusStep
    \/ CheckStatusStep
    \/ Respond
    \/ \E r \in Runners : RunnerStep(r)

Spec == Init /\ [][Next]_vars

\* Every started thread is scheduled again and again (the OS scheduler and
\* the interpreter's thread switching), and every call it makes returns.
\* The status handler takes the lock and releases it within one step
\* (JobStatusGet), so it never disables a runner step; FairSpec leaves it out.
FairNext ==
    \/ CreateJob
    \/ StartJob
    \/ Respond
    \/ \E r \in Runners : RunnerStep(r)

FairSpec ==
    /\ Init /\ [][FairNext]_vars
    /\ WF_vars(Respond)
    /\ \A r \in Runners : WF_vars(RunnerStep(r))

\* The two remote operations called alone, each with any style, with the
\* budgets the code sets; the caller checks the result as the runners do.
PollInit ==
    /\ app = "wave"
    /\ JOBS = [j \in JobIds \cup {StrangerId} |-> NoRef]
    /\ JOB_STATUS = [p \in Phones |-> NoRef]
    /\ heap = [o \in Refs |-> Unallocated]
    /\ lock = 0
    /\ \E op \in {"edit_encode", "video_encode"}, age_gap \in Styles :
         run = [r \in Runners |->
                  IF r = 1
                  THEN [IdleRunner EXCEPT
                          !.pc = op, !.age_gap = age_gap, !.img = "photo.jpg",
                          !.edited = IF op = "video_encode" THEN edit_output(r)
                                     ELSE None]
                  ELSE IdleRunner]
    /\ issued = 1
    /\ files = {}
    /\ store = {}
    /\ loop = IdleLoop
    /\ writes = [r \in Runners |-> <<>>]
    /\ failed_op = [r \in Runners |-> None]
    /\ quiet = TRUE

PollNext ==
    \E r \in Runners :
        \/ NanoEncode(r) \/ NanoSubmit(r) \/ NanoPoll(r) \/ NanoTimeout(r)
        \/ WanEncode(r) \/ WanSubmit(r) \/ WanPoll(r) \/ WanTimeout(r)

PollSpec == PollInit /\ [][PollNext]_vars

\* The HTTP API alone, with every handler of main.py that reads the registry.
ApiInit == Init /\ app = "api"

ApiRunnerStep(r) ==
    \/ NanoEncode(r) \/ NanoSubmit(r) \/ NanoPoll(r) \/ NanoTimeout(r)
    \/ WanEncode(r) \/ WanSubmit(r) \/ WanPoll(r) \/ WanTimeout(r)
    \/ ApiRegister(r) \/ ApiUploadOriginal(r) \/ ApiSetVideo(r)
    \/ ApiDownloadImage(r) \/ ApiPutImage(r) \/ ApiDownloadVideo(r)
    \/ ApiPutVideo(r) \/ ApiCompleteLock(r) \/ ApiCompleteStatus(r)
    \/ ApiCompleteImage(r) \/ ApiCompleteVideo(r) \/ ApiCompleteUnlock(r)
    \/ ApiExcept(r) \/ ApiFinally(r)

ApiNext ==
    \/ CreateJob
    \/ JobStatusStep
    \/ JobQrStep
    \/ HealthzStep
    \/ Respond
    \/ \E r \in Runners : ApiRunnerStep(r)

ApiSpec == ApiInit /\ [][ApiNext]_vars

(* ============================== claims ================================= *)
Terminal == {"completed", "failed"}
Started(r) == run[r].pc # "idle"
\* The runner's last step before its thread ends.
AtEnd(r) == run[r].pc \in {"finally", "return"}
LastWrite(r) == IF writes[r] = <<>> THEN None ELSE writes[r][Len(writes[r])]

\* C1: in both registries, seen by anyone who holds the lock, an entry's
\* video reference is non-null exactly when its status is "completed".
C1_VideoRefIffCompleted ==
    lock = 0 =>
      /\ \A j \in JobIds : JOBS[j] # NoRef =>
           (heap[JOBS[j]].video_url # None <=> heap[JOBS[j]].status = "completed")
      /\ \A p \in Phones : JOB_STATUS[p] # NoRef =>
           (heap[JOB_STATUS[p]].video_path # None
              <=> heap[JOB_STATUS[p]].status = "completed")

\* C2: in the HTTP API registry an entry's error is non-null exactly when
\* its status is "failed".
C2_ErrorIffFailed ==
    \A j \in JobIds : JOBS[j] # NoRef =>
        (heap[JOBS[j]].error # None <=> heap[JOBS[j]].status = "failed")

\* C2 witness: one job failed with its error set while another completed
\* with none.
C2_Witness ==
    \E j, k \in JobIds :
        /\ JOBS[j] # NoRef /\ JOBS[k] # NoRef
        /\ heap[JOBS[j]].status = "failed" /\ heap[JOBS[j]].error # None
        /\ heap[JOBS[k]].status = "completed" /\ heap[JOBS[k]].error = None

\* The status the HTTP API registry stores for a job id.
StatusOf(j) == Entry(JOBS, j).status
\* The moves C3 allows: registration, then forward one stage at a time, or
\* to failed from a stage that is not terminal.
ForwardMoves ==
    {<<"<unallocated>", "image">>, <<"image", "video">>, <<"video", "completed">>,
     <<"image", "failed">>, <<"video", "failed">>}

\* C3: for every job id of the HTTP API registry the stored status only
\* moves image -> video -> completed, or to failed from image or video; it
\* never moves backward and never reaches completed except from video.
C3_StatusMovesForward ==
    [][\A j \in JobIds :
          StatusOf(j)' # StatusOf(j) => <<StatusOf(j), StatusOf(j)'>> \in ForwardMoves]_vars

\* C3 witness: a runner stored image, video, completed in this order.
C3_Witness ==
    \E r \in Runners :
        /\ app = "api" /\ run[r].pc = "finally"
        /\ writes[r] = <<"image", "video", "completed">>
        /\ StatusOf(run[r].key) = "completed"

\* C4: in both registries an entry that is completed or failed (as seen
\* under the lock) is never changed by any later step.
C4_TerminalImmutable ==
    [][lock = 0 =>
         /\ \A j \in JobIds :
              Entry(JOBS, j).status \in Terminal => Entry(JOBS, j)' = Entry(JOBS, j)
         /\ \A p \in Phones :
              Entry(JOB_STATUS, p).status \in Terminal
                 => Entry(JOB_STATUS, p)' = Entry(JOB_STATUS, p)]_vars

\* C5: no two runner threads are ever started for the same registry key.
C5_OneRunnerPerKey ==
    \A r1, r2 \in Runners :
        (r1 # r2 /\ Started(r1) /\ Started(r2)) => run[r1].key # run[r2].key

\* C6: a status response is consistent with one snapshot of the job: with
\* status "completed" it carries non-null video_url and image_url, and
\* video_url / image_url / qr_url appear only with status "completed".
C6_ResponseIsSnapshot ==
    (loop.h = "job_status" /\ loop.pc = "return") =>
        /\ loop.resp.status = "completed" =>
              /\ loop.resp.video_url \notin {None, Absent}
              /\ loop.resp.image_url \notin {None, Absent}
        /\ loop.resp.status # "completed" =>
              /\ loop.resp.video_url = Absent
              /\ loop.resp.image_url = Absent
              /\ loop.resp.qr_url = Absent

\* C7: in both variants, once an operation of a runner has failed the runner
\* executes no further pipeline step (it is in its except clause or at its
\* end), and it ends having stored status failed with a non-empty error.
C7_FailureMarksJobFailed ==
    \A r \in Runners :
        failed_op[r] # None =>
            /\ run[r].pc \in {"except", "finally", "return"}
            /\ AtEnd(r) =>
                 /\ LastWrite(r) = "failed"
                 /\ heap[<<r, 2>>] # Unallocated
                 /\ heap[<<r, 2>>].error \notin {None, ""}

\* C8: under fair scheduling every started runner reaches its end having
\* stored a terminal status, and no entry of either registry stays in
\* image or video for ever.
C8_RunnerReachesTerminal ==
    /\ \A r \in Runners :
         (run[r].pc = "init") ~>
            (AtEnd(r) /\ LastWrite(r) \in Terminal
               /\ (app = "api" => StatusOf(run[r].key) \in Terminal))
    /\ \A j \in JobIds :
         (StatusOf(j) \in {"image", "video"}) ~> (StatusOf(j) \in Terminal)
    /\ \A p \in Phones :
         (Entry(JOB_STATUS, p).status \in {"image", "video"})
            ~> (Entry(JOB_STATUS, p).status \in Terminal)

\* C8 witness: a runner whose speech-to-video wait used up its poll budget
\* is at its end with the job failed.
C8_Witness ==
    \E r \in Runners :
        /\ AtEnd(r) /\ failed_op[r] = "video_timeout"
        /\ LastWrite(r) = "failed"

\* C9: an HTTP API runner of any recognised style all of whose calls
\* succeeded stored image, video, completed and leaves the entry completed
\* with image_url and video_url set; a status query that begins after the
\* runner ended reports "completed" with both references.
C9_SuccessCompletes ==
    /\ \A r \in Runners :
         (app = "api" /\ run[r].pc = "finally" /\ failed_op[r] = None) =>
            /\ run[r].age_gap \in ValidStyles
            /\ writes[r] = <<"image", "video", "completed">>
            /\ Entry(JOBS, run[r].key).status = "completed"
            /\ Entry(JOBS, run[r].key).image_url # None
            /\ Entry(JOBS, run[r].key).video_url # None
    /\ (/\ loop.h = "job_status" /\ loop.pc = "return" /\ loop.late
        /\ StatusOf(loop.job_id) = "completed") =>
            /\ loop.resp.status = "completed"
            /\ loop.resp.video_url = Entry(JOBS, loop.job_id).video_url
            /\ loop.resp.image_url = Entry(JOBS, loop.job_id).image_url
            /\ loop.resp.video_url # None /\ loop.resp.image_url # None

\* C9 witness: a query begun after its job's runner ended answers
\* "completed", while another runner, of style Girl, ends successfully.
C9_Witness ==
    /\ loop.h = "job_status" /\ loop.pc = "return" /\ loop.late
    /\ loop.resp.status = "completed"
    /\ \E r \in Runners :
         /\ run[r].pc = "finally" /\ failed_op[r] = None
         /\ run[r].age_gap = "Girl"

\* What a rejected submission must leave alone.
SubmissionState == <<issued, run, files, JOBS, heap, store, writes, failed_op>>

\* C10: a create_job request whose style is not Male, Female, Boy or Girl
\* is answered 400 and draws no job id, starts no runner, writes no file
\* and leaves the registry unchanged.
C10_InvalidStyleRejected ==
    [][\A age_group \in Styles \ ValidStyles, content_type \in ContentTypes,
          body \in Bodies :
          PostJobs(age_group, content_type, body) =>
              /\ loop'.res = [code |-> 400, detail |-> "Invalid age_group"]
              /\ UNCHANGED SubmissionState]_vars

\* C10 witness: after one accepted job, a request with an unrecognised
\* style has been answered 400 "Invalid age_group".
C10_Witness ==
    /\ loop.h = "create_job"
    /\ loop.res = [code |-> 400, detail |-> "Invalid age_group"]
    /\ issued = 1 /\ files # {}

\* C11: the image-edit and the speech-to-video operation send their
\* submission POST only for a style that is Male, Female, Boy or Girl; with
\* any other style they fail before a remote request is sent.
C11_UnknownStyleSendsNothing ==
    [][\A r \in Runners :
          (NanoSubmit(r) \/ WanSubmit(r)) => run[r].age_gap \in ValidStyles]_vars

\* The status values runner r has stored so far.
Stored(r) == {writes[r][i] : i \in 1..Len(writes[r])}

\* C12: a runner whose image-edit task was reported failed goes to its
\* except clause and nowhere else: it never calls the speech-to-video
\* operation, never stores video or completed, and ends with status failed
\* and a non-empty error; the job's video reference is null before the edit
\* returns and stays null.  The entry is that of the HTTP API registry,
\* where the job id belongs to one runner.
C12_EditFailedEndsFailed ==
    \A r \in Runners :
        /\ (app = "api" /\ run[r].pc \in {"upload_original", "edit_encode",
                                           "edit_submit", "edit_poll"})
              => Entry(JOBS, run[r].key).video_url = None
        /\ failed_op[r] = "edit_task_failed" =>
              /\ run[r].pc \in {"except", "finally", "return"}
              /\ run[r].video = None
              /\ Stored(r) \subseteq {"image", "failed"}
              /\ app = "api" => Entry(JOBS, run[r].key).video_url = None
              /\ AtEnd(r) =>
                   /\ LastWrite(r) = "failed"
                   /\ app = "api" =>
                        /\ Entry(JOBS, run[r].key).status = "failed"
                        /\ Entry(JOBS, run[r].key).error \notin {None, ""}

\* C12 witness: an HTTP API runner is at its end after the remote service
\* reported the edit task failed.
C12_Witness ==
    \E r \in Runners :
        /\ app = "api" /\ AtEnd(r) /\ failed_op[r] = "edit_task_failed"
        /\ Entry(JOBS, run[r].key).status = "failed"

\* C13: an HTTP API runner whose speech-to-video wait used up its budget
\* ends with status failed, no video artifact in the store, and an error
\* text that differs from the one a runner stores when the remote service
\* reported the task failed or rejected the submission.
C13_VideoTimeoutIsTold ==
    \A r \in Runners :
        (app = "api" /\ AtEnd(r) /\ failed_op[r] = "video_timeout") =>
            /\ Entry(JOBS, run[r].key).status = "failed"
            /\ Entry(JOBS, run[r].key).error \notin {None, ""}
            /\ _s3_key("videos", run[r].key \o ".mp4") \notin store
            /\ \A q \in Runners :
                 (AtEnd(q) /\ failed_op[q] \in {"video_task_failed", "video_rejected"})
                    => Entry(JOBS, run[q].key).error # Entry(JOBS, run[r].key).error

\* One step of runner r out of the wait `poll` of an operation whose budget
\* is `budget`: either a poll request issued within the budget, which keeps
\* waiting with one more poll counted, returns the output on completed
\* (to `next`), or fails; or, with the budget used up, the timeout.
WaitStep(r, poll, budget, output, next, failures, timeout) ==
    \/ /\ run[r].retry_count < budget
       /\ \/ /\ run'[r].pc = poll
             /\ run'[r].retry_count = run[r].retry_count + 1
             /\ failed_op'[r] = None
          \/ /\ run'[r].pc = next
             /\ output \in {run'[r].edited, run'[r].video}
             /\ failed_op'[r] = None
          \/ /\ run'[r].pc = "except"
             /\ failed_op'[r] \in failures
    \/ /\ run[r].retry_count = budget
       /\ run'[r].pc = "except"
       /\ failed_op'[r] = timeout

\* C14: each wait is entered only from its accepted submission with no poll
\* counted, never counts more than max_retries polls (360 for the edit, 240
\* for the video), leaves on the first poll that reports completed (with
\* the output) or failed, times out exactly when the budget is used up, and
\* is not entered again afterwards.
C14_BoundedPolling ==
    [][\A r \in Runners :
          /\ (run[r].pc = "edit_poll" /\ run'[r] # run[r]) =>
                WaitStep(r, "edit_poll", max_retries_edit, edit_output(r), "set_video",
                         {"edit_task_failed", "edit_poll_http", "edit_exception"},
                         "edit_timeout")
          /\ (run[r].pc = "video_poll" /\ run'[r] # run[r]) =>
                WaitStep(r, "video_poll", max_retries_video, video_output(r),
                         "save_photo",
                         {"video_task_failed", "video_poll_http", "video_exception"},
                         "video_timeout")
          /\ (run[r].pc # "edit_poll" /\ run'[r].pc = "edit_poll") =>
                (run[r].pc = "edit_submit" /\ run'[r].retry_count = 0)
          /\ (run[r].pc # "video_poll" /\ run'[r].pc = "video_poll") =>
                (run[r].pc = "video_submit" /\ run'[r].retry_count = 0)
          /\ run'[r].retry_count <= max_retries_edit
          /\ run'[r].pc = "video_poll" => run'[r].retry_count <= max_retries_video]_vars

\* C14 witness: the video wait has counted 240 polls that all reported
\* processing and timed out.
C14_Witness ==
    \E r \in Runners :
        /\ app = "wave" /\ run[r].pc = "except" /\ failed_op[r] = "video_timeout"

\* C15: a submission POST of either operation that is answered with a status
\* other than 200 takes the runner from the submission straight to its
\* except clause: no poll is issued or counted then or later, and the
\* runner ends having stored failed.
C15_RejectedSubmissionFails ==
    [][\A r \in Runners :
          failed_op'[r] \in {"edit_rejected", "video_rejected"} =>
              /\ run'[r].pc \in {"except", "finally", "return"}
              /\ run'[r].retry_count = 0
              /\ run'[r].video = None
              /\ failed_op[r] # failed_op'[r] =>
                    run[r].pc = IF failed_op'[r] = "edit_rejected"
                                THEN "edit_submit" ELSE "video_submit"
              /\ AtEnd(r)' =>
                    /\ LastWrite(r)' = "failed"
                    /\ app = "api" => Entry(JOBS, run[r].key)'.status = "failed"]_vars

\* C15 witness: a runner whose speech-to-video submission was refused is at
\* its end with failed stored.
C15_Witness ==
    \E r \in Runners :
        /\ AtEnd(r) /\ failed_op[r] = "video_rejected"
        /\ LastWrite(r) = "failed"

\* The registry entry of runner r's job id holds what r's own run produced.
OwnResult(r) ==
    LET job == Entry(JOBS, run[r].key) IN
    /\ JOBS[run[r].key] \in {<<r, 1>>, <<r, 2>>}
    /\ job.status \in Terminal
    /\ job.status = "completed" =>
          /\ job.image_url = _s3_url_for_key(_s3_key("images", run[r].key \o ".jpeg"))
          /\ job.video_url = _s3_url_for_key(_s3_key("videos", run[r].key \o ".mp4"))
          /\ job.error = None
    /\ job.status = "failed" =>
          /\ job.error \notin {None, ""}
          /\ job.image_url = None /\ job.video_url = None

\* C16: in the HTTP API a step of a runner leaves the binding and the entry
\* of every other job id unchanged, and when a runner is at its end or has
\* ended the entry of its id holds the terminal status, references and
\* error of its own run (completed exactly when none of its calls failed).
C16_JobsAreIndependent ==
    [][app = "api" =>
         \A r \in Runners :
            /\ RunnerStep(r) =>
                 \A j \in JobIds \ {run[r].key} :
                    JOBS'[j] = JOBS[j] /\ Entry(JOBS, j)' = Entry(JOBS, j)
            /\ AtEnd(r)' =>
                 /\ OwnResult(r)'
                 /\ Entry(JOBS, run[r].key)'.status = LastWrite(r)'
                 /\ (failed_op'[r] = None) <=> (LastWrite(r)' = "completed")
            /\ run'[r].pc = "done" => OwnResult(r)']_vars

\* C16 witness: both runners have ended, one job completed and the other
\* failed.
C16_Witness ==
    /\ app = "api"
    /\ \A r \in Runners : run[r].pc = "done"
    /\ \E r, q \in Runners :
         /\ Entry(JOBS, run[r].key).status = "completed"
         /\ Entry(JOBS, run[q].key).status = "failed"

\* C17: in both registries an entry with status completed has its edited
\* image and its video in the artifact store (S3 keys in the HTTP API,
\* result files in the Gradio app).
C17_CompletedHasArtifacts ==
    /\ \A j \in JobIds :
         Entry(JOBS, j).status = "completed" =>
            {_s3_key("images", j \o ".jpeg"), _s3_key("videos", j \o ".mp4")}
               \subseteq store
    /\ \A p \in Phones :
         Entry(JOB_STATUS, p).status = "completed" =>
            {photo_path(p), video_path(p)} \subseteq store

\* C18: from the moment create_job has returned a job id the HTTP API
\* registry holds an entry for that id, and the first status stored for it
\* is queued.
C18_RegisteredFromSubmission ==
    \A r \in Runners :
        (app = "api" /\ Started(r)) =>
            /\ JOBS[run[r].key] # NoRef
            /\ writes[r] # <<>> => writes[r][1] = "queued"

\* C19: a create_job request with a recognised style, a JPEG or PNG content
\* type and a non-empty body is answered with a fresh job id and status
\* queued, and starts exactly one runner, for that id, which has not run
\* when the response is there.
C19_ValidSubmissionAccepted ==
    [][\A age_group \in ValidStyles, content_type \in ImageTypes,
          body \in Bodies \ {<<>>} :
          PostJobs(age_group, content_type, body) =>
              /\ loop'.res = [code |-> 200, job_id |-> uuid4(issued + 1),
                              status |-> "queued"]
              /\ issued' = issued + 1
              /\ run'[issued + 1].pc = "init"
              /\ run'[issued + 1].key = uuid4(issued + 1)
              /\ \A r \in Runners \ {issued + 1} : run'[r] = run[r]]_vars


\* The payload a status query for the key it holds would return if it read
\* the registry as it is now, all at once.
Payload ==
    IF loop.h = "job_status" THEN project(loop.job_id, Entry(JOBS, loop.job_id))
    ELSE IF truthy(loop.phone) THEN check_view(Entry(JOB_STATUS, loop.phone))
    ELSE View(None, "")

\* C20: a status query never changes the registry and is repeatable.  Every
\* step of job_status (HTTP API) and of check_status (Gradio app), from the
\* lookup to the response, leaves both registries, every dict in them and
\* the stored artifacts as they were; and a query during which no runner
\* thread took a step responds with the payload the registry dictates, so
\* two queries for the same key with no runner step between them return the
\* same payload.
C20_StatusQueryIsPure ==
    [][/\ (loop' # loop /\ (Querying \/ Querying'))
          => UNCHANGED <<JOBS, JOB_STATUS, heap, store, files>>
       /\ (Querying /\ quiet /\ loop' = IdleLoop)
          => IF loop.h = "job_status" THEN loop.resp = Payload
             ELSE loop.view = Payload]_vars

\* A query of either kind, undisturbed by the runners, is about to respond
\* with the progress or the result of a job that has passed its first stage.
C20_Witness ==
    /\ Querying /\ quiet /\ loop.pc = "return"
    /\ \/ loop.h = "job_status" /\ loop.resp.status \in {"video", "completed"}
       \/ loop.h = "check_status" /\ loop.view.message \in {"Creating video...", "Video ready!"}
    /\ \E r \in Runners : Started(r) /\ run[r].pc # "done"


\* The positions from which a runner's next step is a network call, a file or
\* object-store operation, or a poll followed by a sleep.
Blocking ==
    {"upload_original", "edit_encode", "edit_submit", "edit_poll",
     "video_encode", "video_submit", "video_poll", "download_image",
     "put_image", "download_video", "put_video", "save_photo", "save_video",
     "finally"}

\* The registry maps and the dicts in them.
RegistryState == <<JOBS, JOB_STATUS, heap>>

\* C21: the registry lock is never held across a network call, a file or
\* object-store operation or a sleep.  The thread that holds JOBS_LOCK or
\* _JOB_LOCK is started and at a position inside a `with` block, its steps
\* there touch neither the disk nor the object store, and so does every
\* step that takes and releases the lock at once: a runner's write of the
\* registry and a status handler's lookup.
C21_LockOnlyAroundRegistry ==
    [][/\ lock # 0 => /\ Started(lock) /\ run[lock].pc \notin Blocking
                      /\ run'[lock] # run[lock] => UNCHANGED <<store, files>>
       /\ lock' # 0 => run'[lock'].pc \notin Blocking
       /\ RegistryState' # RegistryState => UNCHANGED <<store, files>>
       /\ (Querying' /\ ~Querying) => UNCHANGED <<store, files>>]_vars

\* A runner holds the lock while another runner is about to make a network
\* call or touch the disk or the object store.
C21_Witness ==
    /\ lock # 0
    /\ \E r \in Runners \ {lock} : run[r].pc \in Blocking


\* C22: every access of a handler to the HTTP API registry is made under
\* JOBS_LOCK for the whole access.  A consequence that the runners can
\* observe: whenever job_status, job_qr or healthz takes a step that reads
\* the registry map or the fields of an entry, no runner is inside a
\* `with JOBS_LOCK` block.
C22_HandlersReadUnderLock ==
    [][(loop' # loop /\ loop'.h \in {"job_status", "job_qr", "healthz"})
          => lock = 0]_vars


InEdit == {"edit_encode", "edit_submit", "edit_poll"}
InVideo == {"video_encode", "video_submit", "video_poll"}

\* How far along its run a runner at position pc is.
Progress(pc) ==
    CASE pc = "idle" -> 0
      [] pc = "init" -> 1
      [] pc = "upload_original" -> 2
      [] pc \in InEdit -> 3
      [] pc = "set_video" -> 4
      [] pc \in InVideo -> 5
      [] pc \in {"except", "finally", "return"} -> 7
      [] pc = "done" -> 8
      [] OTHER -> 6

\* C24: within one run each remote operation is invoked at most once and in
\* order.  At every step of a runner: it never goes back to an earlier
\* part of its run, so it enters the image edit once, from the start of the
\* run, and the video generation once, from the store of status "video";
\* while it is in the
\* video generation the edit has returned its output URL, that URL is the
\* image the video generation was given, status "video" has been stored and
\* nothing has failed; and after a failure the runner is in neither
\* operation.
C24_RemoteOperationsOnceInOrder ==
    [][\A r \in Runners :
         run'[r] # run[r] =>
           /\ Progress(run'[r].pc) >= Progress(run[r].pc)
           /\ (run'[r].pc \in InEdit /\ run[r].pc \notin InEdit)
                 => run[r].pc \in {"init", "upload_original"}
           /\ (run'[r].pc \in InVideo /\ run[r].pc \notin InVideo)
                 => run[r].pc = "set_video"
           /\ run[r].pc \in InVideo \cup {"set_video"}
                 => /\ run[r].edited = edit_output(r)
                    /\ run'[r].pc \in InVideo => run'[r].edited = run[r].edited
                    /\ failed_op[r] = None
           /\ run[r].pc \in InVideo => "video" \in Stored(r)
           /\ failed_op[r] # None => run[r].pc \notin InEdit \cup InVideo]_vars

\* A runner waits for the video of the image its edit returned, after one
\* poll already; another runner has failed in its edit.
C24_Witness ==
    \E r1, r2 \in Runners :
        /\ run[r1].pc = "video_poll" /\ run[r1].retry_count > 0
        /\ run[r1].edited = edit_output(r1)
        /\ failed_op[r2] \in {"edit_task_failed", "edit_rejected", "edit_timeout"}


\* C25: a job_status query for an id without a registry entry is answered
\* {status: "queued"} and nothing else, never not-found: for an id whose
\* runner has not registered it yet and for an id that was never issued.
\* The never-issued id never gets an entry, so every query for it, at any
\* time, is answered queued.
C25_UnknownIdIsQueued ==
    [][/\ JOBS[StrangerId] = NoRef
       /\ \A r \in Runners : run[r].key # StrangerId
       /\ \A job_id \in JobIds \cup {StrangerId} :
            (JobStatusGet(job_id) /\ JOBS[job_id] = NoRef) =>
                /\ loop'.pc = "return"
                /\ loop'.resp = Resp("queued", Absent)
       /\ (loop.h = "job_status" /\ loop.job = NoRef /\ loop' # loop) =>
            /\ loop.resp = Resp("queued", Absent)
            /\ loop' = IdleLoop]_vars

\* A query is answered queued for a job whose runner has started but has
\* not registered it, while an earlier job is on record.
C25_Witness ==
    /\ loop.h = "job_status" /\ loop.pc = "return"
    /\ loop.job = NoRef /\ loop.resp = Resp("queued", Absent)
    /\ \E r \in Runners : run[r].pc = "init" /\ run[r].key = loop.job_id
    /\ \E j \in JobIds : JOBS[j] # NoRef


\* C26: a poll of either operation that is answered with a status other than
\* 200 ends the wait at once, whatever is left of the retry budget: the
\* runner goes from that poll straight to its except clause, without a
\* sleep, a count or another poll, with no output of the operation, and it
\* ends having stored failed.
C26_PollErrorEndsWait ==
    [][\A r \in Runners :
          failed_op'[r] \in {"edit_poll_http", "video_poll_http"} =>
              /\ run'[r].pc \in {"except", "finally", "return"}
              /\ run'[r].retry_count = 0
              /\ run'[r].video = None
              /\ failed_op'[r] = "edit_poll_http" => run'[r].edited = None
              /\ failed_op[r] # failed_op'[r] =>
                    /\ run[r].pc = IF failed_op'[r] = "edit_poll_http"
                                   THEN "edit_poll" ELSE "video_poll"
                    /\ run[r].retry_count <
                          IF failed_op'[r] = "edit_poll_http"
                          THEN EditBudget ELSE VideoBudget
                    /\ run'[r].pc = "except"
              /\ AtEnd(r)' =>
                    /\ LastWrite(r)' = "failed"
                    /\ app = "api" => Entry(JOBS, run[r].key)'.status = "failed"]_vars

\* A runner whose poll for the edited image was answered with an error is at
\* its end with failed stored, and another runner is still polling.
C26_Witness ==
    \E r1, r2 \in Runners :
        /\ AtEnd(r1) /\ failed_op[r1] = "edit_poll_http"
        /\ LastWrite(r1) = "failed"
        /\ run[r2].pc \in {"edit_poll", "video_poll"}


\* C27: a create_job request that is rejected after its temporary upload was
\* opened (the request passed the style and content type checks and its
\* body did not get through the upload loop) creates no job: no runner is
\* started, the registry is unchanged, and no temporary upload of the
\* request is on disk when the request ends.
C27_RejectedUploadLeavesNothing ==
    [][\A age_group \in ValidStyles, content_type \in ImageTypes,
          body \in Bodies :
          (PostJobs(age_group, content_type, body) /\ loop'.res.code # 200) =>
              /\ run' = run
              /\ UNCHANGED <<JOBS, JOB_STATUS, heap>>
              /\ files' = files]_vars
====
